---- MODULE Spec2Model ----
(***************************************************************************)
(* Duplicate finder of Amadubelo (src/src/core/duplicate_finder.py).       *)
(*                                                                         *)
(* One call of find_duplicates followed by get_duplicate_stats, run        *)
(* against a small file system that an external writer may change while    *)
(* the scan is in progress.  The scan is split at its file system calls    *)
(* (scandir/listdir, getsize, open+read), so that an external change can   *)
(* fall between any two of them.                                           *)
(***************************************************************************)
EXTENDS Integers, Sequences, FiniteSets, TLC

VARIABLES
    rootKind,       \* what folder_path names: "dir", "file" or "missing"
    exists,         \* the entries present under the root
    unreadable,     \* entries whose read permission was revoked
    data,           \* byte content of every regular file
    envSteps,       \* number of external changes made so far
    changed,        \* entries changed externally since the scan started
    pc,             \* position of the scan
    config,         \* arguments of find_duplicates
    walkDirs,       \* os.walk: directories still to visit
    walkRoot,       \* os.walk: `root` of the tuple being processed
    walkFiles,      \* os.walk: `files` of the tuple still to process
    all_files,      \* list of (filepath, size)
    potential_duplicates, \* dict size -> files, as an insertion-ordered list
    hashTodo,       \* files of potential_duplicates not yet iterated over
    hash_groups,    \* dict hash -> files, as an insertion-ordered list
    total_to_check,
    checked,
    callbacks,      \* the calls progress_callback received: <<checked, total>>
    hashCalls,      \* the arguments compute_hash received, in order
    hashFailed,     \* the files whose compute_hash raised
    duplicates,     \* the value find_duplicates returned
    stats,          \* the value get_duplicate_stats returned
    cancelRequested,\* the caller has asked for the running scan to be cancelled
    hashState,      \* a call of compute_hash on its own: "none", "reading", "returned"
    hashInput,      \* the bytes of the file it was given
    chunk_size,     \* its chunk_size argument
    filePos,        \* the position of the file object f
    hasher,         \* the bytes hasher.update received so far
    reads,          \* the length of the data each f.read(chunk_size) returned
    digest,         \* the value it returned
    previous,       \* the outcome of the call before this one, if there was one
    listingReversed,\* the directory listings of this call come in the other order
    folder_entry,   \* DuplicateFinderView: the text of the folder entry
    folder_path,    \* self.folder_path
    scan_btn,       \* state of the Scan button: "normal" or "disabled"
    progressShown,  \* the progress bar is gridded
    workers,        \* worker threads inside the try block of _do_scan
    afterQueue,     \* the callables handed to the UI thread with after(0, ...)
    posted,         \* what the worker of the current scan handed over, if anything
    widgetCalls,    \* <<widget, thread>>: the thread modified the widget
    self_duplicates,\* self.duplicates
    errorShown,     \* the text of the last show_error
    scans,          \* number of worker threads started so far
    progressSeen    \* number of calls of `progress` that have run

fsVars   == <<rootKind, exists, unreadable, data, envSteps, changed>>
scanVars == <<pc, config, walkDirs, walkRoot, walkFiles, all_files,
              potential_duplicates, hashTodo, hash_groups, total_to_check,
              checked, callbacks, hashCalls, hashFailed, duplicates, stats>>
chunkVars == <<hashState, hashInput, chunk_size, filePos, hasher, reads, digest>>
rescanVars == <<previous, listingReversed>>
viewVars == <<folder_entry, folder_path, scan_btn, progressShown, workers, afterQueue,
              posted, widgetCalls, self_duplicates, errorShown, scans, progressSeen>>
callerVars == <<cancelRequested, chunkVars, rescanVars, viewVars>>
vars     == <<rootKind, exists, unreadable, data, envSteps, changed,
              pc, config, walkDirs, walkRoot, walkFiles, all_files,
              potential_duplicates, hashTodo, hash_groups, total_to_check,
              checked, callbacks, hashCalls, hashFailed, duplicates, stats,
              cancelRequested,
              hashState, hashInput, chunk_size, filePos, hasher, reads, digest,
              previous, listingReversed,
              folder_entry, folder_path, scan_btn, progressShown, workers, afterQueue,
              posted, widgetCalls, self_duplicates, errorShown, scans, progressSeen>>

----------------------------------------------------------------------------
(* Bounds *)

\* number of external changes (delete, revoke, overwrite) in one behaviour
MaxEnvSteps == 1

\* min_size ranges over 0..MaxMinSize
MaxMinSize == 1

\* the duplicate-finder view: number of scans the user starts
MaxScans == 2

\* compute_hash on its own: the files are of 0..MaxFileLen bytes
MaxFileLen == 3

\* compute_hash on its own: chunk_size ranges over 1..MaxChunk
MaxChunk == 4

\* the byte contents a file may have: an empty file and two files of one size
Contents == {<<>>, <<1, 1>>, <<1, 2>>}

----------------------------------------------------------------------------
(* The file system under folder_path.  A path is the sequence of names     *)
(* below folder_path; <<>> is folder_path itself.                          *)

Root == <<>>

FileNodes == {<<"a.txt">>, <<"b.TXT">>, <<"sub", "d.txt">>}
DirNodes  == {<<"sub">>}
LinkNodes == {<<"lnk">>, <<"dl">>}
Nodes     == FileNodes \cup DirNodes \cup LinkNodes

\* what each symbolic link points to
Target == (<<"lnk">> :> <<"a.txt">>) @@ (<<"dl">> :> <<"sub">>)

\* the order in which a directory listing returns names
NameOrder == <<"a.txt", "b.TXT", "d.txt", "dl", "lnk", "sub">>

\* the characters of every name
Chars ==
    [n \in {"a.txt", "b.TXT", "d.txt", "dl", "lnk", "sub"} |->
        CASE n = "a.txt" -> <<"a", ".", "t", "x", "t">>
          [] n = "b.TXT" -> <<"b", ".", "T", "X", "T">>
          [] n = "d.txt" -> <<"d", ".", "t", "x", "t">>
          [] n = "dl"    -> <<"d", "l">>
          [] n = "lnk"   -> <<"l", "n", "k">>
          [] n = "sub"   -> <<"s", "u", "b">>]

Front(s) == SubSeq(s, 1, Len(s) - 1)
Last(s)  == s[Len(s)]

IsPrefix(p, q) == Len(p) <= Len(q) /\ SubSeq(q, 1, Len(p)) = p

\* os.path.join(root, filename)
Join(dir, name) == Append(dir, name)

\* the entry a path names once the symbolic links on it are followed
RECURSIVE Resolve(_)
Resolve(p) ==
    IF p = Root THEN Root
    ELSE LET q == Append(Resolve(Front(p)), Last(p))
         IN  IF q \in LinkNodes /\ q \in exists THEN Target[q] ELSE q

\* stat() succeeds: the path resolves to an entry that is present
StatOK(p) ==
    /\ rootKind = "dir"
    /\ Resolve(p) = Root \/ Resolve(p) \in exists

IsDir(p)  == StatOK(p) /\ Resolve(p) \in DirNodes \cup {Root}
IsFile(p) == StatOK(p) /\ Resolve(p) \in FileNodes

\* os.path.islink
IsLink(p) == rootKind = "dir" /\ p \in LinkNodes /\ p \in exists

\* os.path.getsize follows links; a directory reports st_size 0 (Windows)
GetSize(p) == IF IsFile(p) THEN Len(data[Resolve(p)]) ELSE 0

\* open(filepath, 'rb') succeeds
CanOpen(p) == IsFile(p) /\ Resolve(p) \notin unreadable

\* os.scandir / os.listdir succeeds
CanList(p) == IsDir(p) /\ Resolve(p) \notin unreadable

Reverse(q) == [i \in 1..Len(q) |-> q[Len(q) + 1 - i]]

\* the names a listing of directory p returns, in listing order
Listing(p) ==
    SelectSeq(IF listingReversed THEN Reverse(NameOrder) ELSE NameOrder,
              LAMBDA n : Append(Resolve(p), n) \in exists)

----------------------------------------------------------------------------
(* Extension filter *)

LowerChar(c) ==
    CASE c = "T" -> "t"
      [] c = "X" -> "x"
      [] OTHER   -> c

\* variant of line 49: .lower() left out
LowerNot(cs) == cs

\* str.lower()
Lower(cs) == [i \in 1..Len(cs) |-> LowerChar(cs[i])]

\* index of the last "." of cs, 0 when there is none
LastDot(cs) ==
    IF \E i \in 1..Len(cs) : cs[i] = "."
    THEN CHOOSE i \in 1..Len(cs) :
            /\ cs[i] = "."
            /\ \A j \in (i + 1)..Len(cs) : cs[j] # "."
    ELSE 0

\* os.path.splitext(filename)[1]: from the last dot on, unless only dots precede it
SplitExt(cs) ==
    LET d == LastDot(cs)
    IN  IF d > 0 /\ \E i \in 1..(d - 1) : cs[i] # "."
        THEN SubSeq(cs, d, Len(cs))
        ELSE <<>>

DotTxt == <<".", "t", "x", "t">>

\* the values of the `extensions` argument: None, [] and ['.txt']
ExtensionChoices ==
    { [none |-> TRUE,  items |-> {}],
      [none |-> FALSE, items |-> {}],
      [none |-> FALSE, items |-> {DotTxt}] }

\* `if extensions:` is true for a non-empty list only
FilterActive(extensions) == ~extensions.none /\ extensions.items # {}

\* lines 48-51: the file passes the extension filter
PassesExtension(filename, extensions) ==
    FilterActive(extensions) => Lower(SplitExt(Chars[filename])) \in extensions.items

\* variant of line 55: a strict comparison
PassesMinSizeStrict(size, min_size) == size > min_size

\* line 55
PassesMinSize(size, min_size) == size >= min_size

Configs ==
    [recursive : BOOLEAN, min_size : 0..MaxMinSize, extensions : ExtensionChoices]

----------------------------------------------------------------------------
(* Insertion-ordered dictionaries key -> list, as lists of [key, files] *)

HasKey(d, k) == \E i \in 1..Len(d) : d[i].key = k

\* variant of lines 62 and 79: the value appended twice
DictAppendTwice(d, k, v) ==
    IF HasKey(d, k)
    THEN [i \in 1..Len(d) |->
            IF d[i].key = k THEN [d[i] EXCEPT !.files = Append(Append(@, v), v)] ELSE d[i]]
    ELSE Append(d, [key |-> k, files |-> <<v, v>>])

\* d[k].append(v) on a defaultdict(list)
DictAppend(d, k, v) ==
    IF HasKey(d, k)
    THEN [i \in 1..Len(d) |->
            IF d[i].key = k THEN [d[i] EXCEPT !.files = Append(@, v)] ELSE d[i]]
    ELSE Append(d, [key |-> k, files |-> <<v>>])

\* lines 61-62: group by size
RECURSIVE GroupBySize(_, _)
GroupBySize(files, acc) ==
    IF files = <<>> THEN acc
    ELSE GroupBySize(Tail(files), DictAppend(acc, Head(files).size, Head(files).path))

\* variants of line 67: the comparison off by one in either direction
IsPotentialGroupOverTwo(files) == Len(files) > 2

IsPotentialGroupNonEmpty(files) == Len(files) > 0

\* line 67: a size group with potential duplicates
IsPotentialGroup(files) == Len(files) > 1

\* variant of line 90: every non-empty hash group is kept
IsDuplicateGroupNonEmpty(files) == Len(files) > 0

\* line 90: a hash group of actual duplicates
IsDuplicateGroup(files) == Len(files) > 1

\* lines 65-68
PotentialDuplicates(size_groups) ==
    SelectSeq(size_groups, LAMBDA g : IsPotentialGroup(g.files))

\* lines 88-91
ActualDuplicates(groups) ==
    SelectSeq(groups, LAMBDA g : IsDuplicateGroup(g.files))

RECURSIVE Flatten(_)
Flatten(d) == IF d = <<>> THEN <<>> ELSE Head(d).files \o Flatten(Tail(d))

\* variant of line 72: the groups counted in place of their files
SumLenGroups(d) == Len(d)

\* line 72: sum(len(files) for files in potential_duplicates.values())
RECURSIVE SumLen(_)
SumLen(d) == IF d = <<>> THEN 0 ELSE Len(Head(d).files) + SumLen(Tail(d))

----------------------------------------------------------------------------
(* compute_hash *)

\* the default chunk_size of compute_hash, in bytes
DefaultChunkSize == 65536

Min(a, b) == IF a < b THEN a ELSE b

\* variant of line 111: f.read() without its argument reads to the end
ReadChunkWhole(content, pos, size) == SubSeq(content, pos + 1, Len(content))

\* line 111: f.read(chunk_size) at position pos: at most `size` bytes, fewer
\* at the end of the file, none after it
ReadChunk(content, pos, size) == SubSeq(content, pos + 1, Min(pos + size, Len(content)))

\* variant of lines 110-114: the loop never calls hasher.update
ReadLoopNoUpdate(content, pos, size, md5) == md5

\* lines 110-114: f.read(chunk_size) until it returns nothing; the hasher's
\* state is the bytes it was fed so far
RECURSIVE ReadLoop(_, _, _, _)
ReadLoop(content, pos, size, md5) ==
    LET chunk == ReadChunk(content, pos, size)
    IN  IF chunk = <<>> THEN md5
        ELSE ReadLoop(content, pos + Len(chunk), size, md5 \o chunk)

\* variant of line 109: the file opened with 'wb', which truncates it
OpenedForWriting(content) == <<>>

\* line 109: what the file holds once it was opened with 'rb' and read
Opened(content) == content

\* hasher.hexdigest(): the digest stands for the bytes fed to the hasher;
\* distinct byte strings have distinct digests
HexDigest(md5) == md5

\* compute_hash on a file that can be opened
ComputeHash(content, size) == HexDigest(ReadLoop(content, 0, size, <<>>))

----------------------------------------------------------------------------
(* get_duplicate_stats *)

\* variant of line 131: one subtracted instead of the number of groups
WastedFilesLessOne(total_files, total_groups) == total_files - 1

\* line 131
WastedFiles(total_files, total_groups) == total_files - total_groups

\* variant of line 138: every member counted as wasted
WastedTermAllMembers(file_size, files) == file_size * Len(files)

\* line 138: the term one group adds to wasted_space
WastedTerm(file_size, files) == file_size * (Len(files) - 1)

\* lines 133-140: a group whose first file cannot be stat'ed adds nothing
RECURSIVE WastedSpace(_)
WastedSpace(groups) ==
    IF groups = <<>> THEN 0
    ELSE LET files == Head(groups).files
         IN  (IF files # <<>> /\ StatOK(files[1])
              THEN WastedTerm(GetSize(files[1]), files)
              ELSE 0) + WastedSpace(Tail(groups))

\* lines 129-148 (wasted_space_formatted, a rendering of wasted_space, is left out)
GetDuplicateStats(groups) ==
    [ groups          |-> Len(groups),
      total_files     |-> SumLen(groups),
      duplicate_files |-> WastedFiles(SumLen(groups), Len(groups)),
      wasted_space    |-> WastedSpace(groups) ]

----------------------------------------------------------------------------
(* Initial state *)

RootKinds == {"dir", "file", "missing"}

NoConfig == [recursive |-> TRUE, min_size |-> 0,
             extensions |-> [none |-> TRUE, items |-> {}]]

NoPrevious == [made |-> FALSE, pc |-> "idle", duplicates |-> <<>>]

NoStats == [groups |-> 0, total_files |-> 0, duplicate_files |-> 0, wasted_space |-> 0]

Init ==
    /\ rootKind \in RootKinds
    /\ exists = IF rootKind = "dir" THEN Nodes ELSE {}
    /\ unreadable = {}
    /\ data \in IF rootKind = "dir" THEN [FileNodes -> Contents]
                ELSE {[f \in FileNodes |-> <<>>]}
    /\ envSteps = 0
    /\ changed = {}
    /\ pc = "idle"
    /\ config = NoConfig
    /\ walkDirs = <<>>
    /\ walkRoot = Root
    /\ walkFiles = <<>>
    /\ all_files = <<>>
    /\ potential_duplicates = <<>>
    /\ hashTodo = <<>>
    /\ hash_groups = <<>>
    /\ total_to_check = 0
    /\ checked = 0
    /\ callbacks = <<>>
    /\ hashCalls = <<>>
    /\ hashFailed = {}
    /\ duplicates = <<>>
    /\ stats = NoStats
    /\ cancelRequested = FALSE
    /\ hashState = "none"
    /\ hashInput = <<>>
    /\ chunk_size = DefaultChunkSize
    /\ filePos = 0
    /\ hasher = <<>>
    /\ reads = <<>>
    /\ digest = <<>>
    /\ previous = NoPrevious
    /\ listingReversed = FALSE
    /\ folder_entry = ""
    /\ folder_path = ""
    /\ scan_btn = "normal"
    /\ progressShown = FALSE
    /\ workers = 0
    /\ afterQueue = <<>>
    /\ posted = "nothing"
    /\ widgetCalls = {}
    /\ self_duplicates = <<>>
    /\ errorShown = ""
    /\ scans = 0
    /\ progressSeen = 0

----------------------------------------------------------------------------
(* External changes of the file system *)

EnvMayAct == envSteps < MaxEnvSteps /\ pc \notin {"failed", "stats"}

Noted(ns) == IF pc = "idle" THEN changed ELSE changed \cup ns

Subtree(n) == {m \in Nodes : IsPrefix(n, m)}

\* an entry (a directory with everything below it) is removed
ExtDelete(n) ==
    /\ EnvMayAct
    /\ n \in exists
    /\ exists' = exists \ Subtree(n)
    /\ changed' = Noted(Subtree(n))
    /\ envSteps' = envSteps + 1
    /\ UNCHANGED <<rootKind, unreadable, data>>
    /\ UNCHANGED scanVars
    /\ UNCHANGED callerVars

\* read permission on a file or a directory is revoked
ExtRevoke(n) ==
    /\ EnvMayAct
    /\ n \in exists \cap (FileNodes \cup DirNodes)
    /\ n \notin unreadable
    /\ unreadable' = unreadable \cup {n}
    /\ changed' = Noted({n})
    /\ envSteps' = envSteps + 1
    /\ UNCHANGED <<rootKind, exists, data>>
    /\ UNCHANGED scanVars
    /\ UNCHANGED callerVars

\* a file is overwritten with other content
ExtModify(f, c) ==
    /\ EnvMayAct
    /\ f \in exists \cap FileNodes
    /\ c # data[f]
    /\ data' = [data EXCEPT ![f] = c]
    /\ changed' = Noted({f})
    /\ envSteps' = envSteps + 1
    /\ UNCHANGED <<rootKind, exists, unreadable>>
    /\ UNCHANGED scanVars
    /\ UNCHANGED callerVars

----------------------------------------------------------------------------
(* find_duplicates *)

\* os.walk(folder_path) is called with followlinks=False
Descends(p) == ~IsLink(p)

\* variant of line 36: os.walk used whatever `recursive` says
UsesWalkAlways(cfg) == TRUE

\* line 36: `if recursive:`
UsesWalk(cfg) == cfg.recursive

\* lines 33-42: the call starts; os.listdir raises on a root that cannot be
\* listed, os.walk is a generator that has not run yet
Start(cfg) ==
    /\ pc = "idle"
    /\ config' = cfg
    /\ IF UsesWalk(cfg)
       THEN /\ walkDirs' = <<Root>>
            /\ walkFiles' = <<>>
            /\ pc' = "walking"
       ELSE /\ walkDirs' = <<>>
            /\ IF CanList(Root)
               THEN walkFiles' = Listing(Root) /\ pc' = "walking"
               ELSE walkFiles' = <<>> /\ pc' = "failed"
    /\ walkRoot' = Root
    /\ UNCHANGED <<all_files, potential_duplicates, hashTodo, hash_groups,
                   total_to_check, checked, callbacks, hashCalls, hashFailed,
                   duplicates, stats>>
    /\ UNCHANGED fsVars
    /\ UNCHANGED callerVars

\* line 43: os.walk produces its next (root, dirs, files); a directory that
\* cannot be listed is passed over in silence (onerror=None)
WalkDir ==
    /\ pc = "walking"
    /\ walkFiles = <<>>
    /\ walkDirs # <<>>
    /\ LET top == Head(walkDirs)
           names == Listing(top)
           dirs == SelectSeq(names, LAMBDA n : IsDir(Join(top, n)))
           nondirs == SelectSeq(names, LAMBDA n : ~IsDir(Join(top, n)))
       IN  IF Descends(top) /\ CanList(top)
           THEN /\ walkRoot' = top
                /\ walkFiles' = nondirs
                /\ walkDirs' = [i \in 1..Len(dirs) |-> Join(top, dirs[i])] \o Tail(walkDirs)
           ELSE /\ walkDirs' = Tail(walkDirs)
                /\ UNCHANGED <<walkRoot, walkFiles>>
    /\ UNCHANGED <<pc, config, all_files, potential_duplicates, hashTodo, hash_groups,
                   total_to_check, checked, callbacks, hashCalls, hashFailed,
                   duplicates, stats>>
    /\ UNCHANGED fsVars
    /\ UNCHANGED callerVars

\* the subclasses of OSError the file system calls raise
OSErrors ==
    {"FileNotFoundError", "PermissionError", "NotADirectoryError", "IsADirectoryError"}

\* what os.path.getsize raises on a path that does not resolve
StatError == "FileNotFoundError"

\* variant of line 57: `except PermissionError:` alone
CaughtPermissionOnly(exc) == exc = "PermissionError"

\* line 57: `except (OSError, PermissionError):`
Caught(exc) == exc \in OSErrors

\* lines 44-58: one file name of the current tuple
WalkFile ==
    /\ pc = "walking"
    /\ walkFiles # <<>>
    /\ LET filename == Head(walkFiles)
           filepath == Join(walkRoot, filename)
       IN  /\ all_files' =
              IF /\ PassesExtension(filename, config.extensions)
                 /\ StatOK(filepath)
                 /\ PassesMinSize(GetSize(filepath), config.min_size)
              THEN Append(all_files, [path |-> filepath, size |-> GetSize(filepath)])
              ELSE all_files
           /\ pc' =
              IF /\ PassesExtension(filename, config.extensions)
                 /\ ~StatOK(filepath)
                 /\ ~Caught(StatError)
              THEN "failed"
              ELSE pc
    /\ walkFiles' = Tail(walkFiles)
    /\ UNCHANGED <<config, walkDirs, walkRoot, potential_duplicates, hashTodo,
                   hash_groups, total_to_check, checked, callbacks, hashCalls,
                   hashFailed, duplicates, stats>>
    /\ UNCHANGED fsVars
    /\ UNCHANGED callerVars

\* variant of lines 60-73: the second pass indented into the loop over the
\* walker, so that it runs when the files of the first directory are done
ClassifyInsideLoop ==
    /\ pc = "walking"
    /\ walkFiles = <<>>
    /\ LET pd == PotentialDuplicates(GroupBySize(all_files, <<>>))
       IN  /\ potential_duplicates' = pd
           /\ hashTodo' = Flatten(pd)
           /\ total_to_check' = SumLen(pd)
    /\ hash_groups' = <<>>
    /\ checked' = 0
    /\ pc' = "hashing"
    /\ UNCHANGED <<config, walkDirs, walkRoot, walkFiles, all_files, callbacks,
                   hashCalls, hashFailed, duplicates, stats>>
    /\ UNCHANGED fsVars
    /\ UNCHANGED callerVars

\* lines 60-73: the walk is over; group by size, keep the groups of 2 and more
Classify ==
    /\ pc = "walking"
    /\ walkFiles = <<>>
    /\ walkDirs = <<>>
    /\ LET pd == PotentialDuplicates(GroupBySize(all_files, <<>>))
       IN  /\ potential_duplicates' = pd
           /\ hashTodo' = Flatten(pd)
           /\ total_to_check' = SumLen(pd)
    /\ hash_groups' = <<>>
    /\ checked' = 0
    /\ pc' = "hashing"
    /\ UNCHANGED <<config, walkDirs, walkRoot, walkFiles, all_files, callbacks,
                   hashCalls, hashFailed, duplicates, stats>>
    /\ UNCHANGED fsVars
    /\ UNCHANGED callerVars

\* variant of line 81: the loop is abandoned in place of `continue`
AfterFailureBreak(todo) == <<>>

\* variant of line 81: the file is tried again
AfterFailureRetry(todo) == todo

\* line 81: what is left to iterate over after compute_hash raised
AfterFailure(todo) == Tail(todo)

\* lines 76-85: one file of a size group; `continue` in the handler skips
\* the counter and the progress callback
HashFile ==
    /\ pc = "hashing"
    /\ hashTodo # <<>>
    /\ LET filepath == Head(hashTodo)
       IN  /\ hashCalls' = Append(hashCalls, filepath)
           /\ IF CanOpen(filepath)
              THEN /\ hash_groups' =
                        DictAppend(hash_groups,
                                   ComputeHash(data[Resolve(filepath)], DefaultChunkSize),
                                   filepath)
                   /\ checked' = checked + 1
                   /\ callbacks' = Append(callbacks, <<checked + 1, total_to_check>>)
                   /\ hashTodo' = Tail(hashTodo)
                   /\ data' = [data EXCEPT ![Resolve(filepath)] = Opened(@)]
                   /\ UNCHANGED hashFailed
              ELSE /\ hashFailed' = hashFailed \cup {filepath}
                   /\ hashTodo' = AfterFailure(hashTodo)
                   /\ UNCHANGED <<hash_groups, checked, callbacks, data>>
    /\ UNCHANGED <<pc, config, walkDirs, walkRoot, walkFiles, all_files,
                   potential_duplicates, total_to_check, duplicates, stats>>
    /\ UNCHANGED <<rootKind, exists, unreadable, envSteps, changed>>
    /\ UNCHANGED callerVars

\* lines 87-93: keep the hash groups of 2 and more, return
Return ==
    /\ pc = "hashing"
    /\ hashTodo = <<>>
    /\ duplicates' = ActualDuplicates(hash_groups)
    /\ pc' = "done"
    /\ UNCHANGED <<config, walkDirs, walkRoot, walkFiles, all_files,
                   potential_duplicates, hashTodo, hash_groups, total_to_check,
                   checked, callbacks, hashCalls, hashFailed, stats>>
    /\ UNCHANGED fsVars
    /\ UNCHANGED callerVars

\* variant of line 139: `except PermissionError:` alone
CaughtInStatsPermissionOnly(exc) == exc = "PermissionError"

\* line 139: `except (OSError, PermissionError):`
CaughtInStats(exc) == exc \in OSErrors

\* lines 134-140: os.path.getsize raises on the first member of a group and
\* the handler lets the exception through
StatsRaises(groups) ==
    \E i \in 1..Len(groups) :
        /\ groups[i].files # <<>>
        /\ ~StatOK(groups[i].files[1])
        /\ ~CaughtInStats(StatError)

\* get_duplicate_stats(duplicates), called on the returned value
Stats ==
    /\ pc = "done"
    /\ IF StatsRaises(duplicates)
       THEN stats' = stats /\ pc' = "failed"
       ELSE stats' = GetDuplicateStats(duplicates) /\ pc' = "stats"
    /\ UNCHANGED <<config, walkDirs, walkRoot, walkFiles, all_files,
                   potential_duplicates, hashTodo, hash_groups, total_to_check,
                   checked, callbacks, hashCalls, hashFailed, duplicates>>
    /\ UNCHANGED fsVars
    /\ UNCHANGED callerVars

----------------------------------------------------------------------------

Next ==
    \/ \E cfg \in Configs : Start(cfg)
    \/ WalkDir
    \/ WalkFile
    \/ Classify
    \/ HashFile
    \/ Return
    \/ Stats
    \/ \E n \in Nodes : ExtDelete(n)
    \/ \E n \in Nodes : ExtRevoke(n)
    \/ \E f \in FileNodes, c \in Contents : ExtModify(f, c)

Spec == Init /\ [][Next]_vars

----------------------------------------------------------------------------
(* The caller's side of the call: arguments a caller may pass that          *)
(* find_duplicates does not validate, and a caller that wants the running  *)
(* scan to stop.  The signature (lines 13-19) takes no cancellation        *)
(* handle and the loops test none, so the wish changes nothing in the      *)
(* scan.  The file system is left alone in this specification.             *)

CallerConfigs ==
    [recursive : BOOLEAN, min_size : {-1} \cup (0..MaxMinSize),
     extensions : ExtensionChoices]

Cancel ==
    /\ pc \in {"walking", "hashing"}
    /\ walkFiles # <<>> \/ walkDirs # <<>> \/ hashTodo # <<>>
    /\ ~cancelRequested
    /\ cancelRequested' = TRUE
    /\ UNCHANGED <<chunkVars, rescanVars, viewVars>>
    /\ UNCHANGED scanVars
    /\ UNCHANGED fsVars

NextCaller ==
    \/ \E cfg \in CallerConfigs : Start(cfg)
    \/ WalkDir
    \/ WalkFile
    \/ Classify
    \/ HashFile
    \/ Return
    \/ Stats
    \/ Cancel

SpecCaller == Init /\ [][NextCaller]_vars

----------------------------------------------------------------------------
(* Two calls of find_duplicates with the same arguments, one after the     *)
(* other, on a file system nobody changes.  The directory listings of the  *)
(* second call may come in another order than those of the first.          *)

\* variant of line 42: all_files outlives the call (a module-level list)
FreshListKept(old) == old

\* lines 34, 42, 71: a local of the call starts empty in every call
FreshList(old) == <<>>

\* the call is over: the caller keeps its outcome, the locals of the call
\* are gone, and the same call is about to be made again
NextCall ==
    /\ pc \in {"done", "failed"}
    /\ ~previous.made
    /\ previous' = [made |-> TRUE, pc |-> pc, duplicates |-> duplicates]
    /\ listingReversed' \in BOOLEAN
    /\ pc' = "idle"
    /\ all_files' = FreshList(all_files)
    /\ potential_duplicates' = FreshList(potential_duplicates)
    /\ hash_groups' = FreshList(hash_groups)
    /\ hashTodo' = <<>>
    /\ walkDirs' = <<>>
    /\ walkFiles' = <<>>
    /\ walkRoot' = Root
    /\ total_to_check' = 0
    /\ checked' = 0
    /\ callbacks' = <<>>
    /\ hashCalls' = <<>>
    /\ hashFailed' = {}
    /\ duplicates' = <<>>
    /\ UNCHANGED <<config, stats>>
    /\ UNCHANGED <<cancelRequested, chunkVars, viewVars>>
    /\ UNCHANGED fsVars

\* the call, made with the arguments of the call before it if there was one
StartSame(cfg) ==
    /\ previous.made => cfg = config
    /\ Start(cfg)

NextRescan ==
    \/ \E cfg \in Configs : StartSame(cfg)
    \/ WalkDir
    \/ WalkFile
    \/ Classify
    \/ HashFile
    \/ Return
    \/ NextCall

SpecRescan == Init /\ [][NextRescan]_vars

----------------------------------------------------------------------------
(* compute_hash on its own, on files of every content up to MaxFileLen     *)
(* bytes and with every chunk_size up to MaxChunk, one f.read at a time.   *)

ByteValues == {1, 2}

ChunkContents == UNION {[1..n -> ByteValues] : n \in 0..MaxFileLen}

\* lines 107-109: the hasher is created and the file opened
HashOpen(content, size) ==
    /\ hashState = "none"
    /\ hashState' = "reading"
    /\ hashInput' = content
    /\ chunk_size' = size
    /\ filePos' = 0
    /\ hasher' = <<>>
    /\ reads' = <<>>
    /\ UNCHANGED digest
    /\ UNCHANGED <<cancelRequested, rescanVars, viewVars>>
    /\ UNCHANGED scanVars
    /\ UNCHANGED fsVars

\* lines 110-116: one turn of the loop; the empty read ends it and the
\* digest is returned
HashRead ==
    /\ hashState = "reading"
    /\ LET chunk == ReadChunk(hashInput, filePos, chunk_size)
       IN  /\ reads' = Append(reads, Len(chunk))
           /\ filePos' = filePos + Len(chunk)
           /\ IF chunk = <<>>
              THEN /\ hashState' = "returned"
                   /\ digest' = HexDigest(hasher)
                   /\ UNCHANGED hasher
              ELSE /\ hasher' = hasher \o chunk
                   /\ UNCHANGED <<hashState, digest>>
    /\ UNCHANGED <<hashInput, chunk_size>>
    /\ UNCHANGED <<cancelRequested, rescanVars, viewVars>>
    /\ UNCHANGED scanVars
    /\ UNCHANGED fsVars

NextChunk ==
    \/ \E content \in ChunkContents, size \in 1..MaxChunk : HashOpen(content, size)
    \/ HashRead

SpecChunk == Init /\ [][NextChunk]_vars

----------------------------------------------------------------------------
(* DuplicateFinderView (src/src/ui/system_utilities/duplicate_finder.py):  *)
(* the UI thread runs the handlers of the widgets and the callables handed *)
(* over with after(0, ...); _start_scan starts a worker thread that runs   *)
(* _do_scan, i.e. find_duplicates on the folder with `progress` as its     *)
(* callback, then get_duplicate_stats.                                     *)

\* what the user may have in the folder entry: nothing, the folder, or a text
\* that os.scandir rejects with ValueError (an embedded null character)
EntryTexts == {"", "folder", "invalid"}

\* lines 146-150: the arguments _do_scan passes
ViewConfig == [recursive |-> TRUE, min_size |-> 0,
               extensions |-> [none |-> TRUE, items |-> {}]]

\* str(e) of the exception os.scandir raises on the invalid text
ExcText == "embedded null byte"

\* the cell of `e` once the except clause of _do_scan has ended
Unbound == "unbound"

Touched(thread, widgets) == widgetCalls \cup {<<w, thread>> : w \in widgets}

\* variant of line 123: the button left as it is
DisabledNot(state) == state

\* line 123: self.scan_btn.configure(state="disabled", ...)
Disabled(state) == "disabled"

\* lines 107-113, or the user typing into the entry
Browse(text) ==
    /\ text # folder_entry
    /\ folder_entry' = text
    /\ widgetCalls' = Touched("ui", {"folder_entry"})
    /\ UNCHANGED <<folder_path, scan_btn, progressShown, workers, afterQueue, posted,
                   self_duplicates, errorShown, scans, progressSeen>>
    /\ UNCHANGED <<cancelRequested, chunkVars, rescanVars>>
    /\ UNCHANGED scanVars
    /\ UNCHANGED fsVars

\* lines 115-119: Scan clicked with an empty entry
StartScanEmpty ==
    /\ scan_btn = "normal"
    /\ folder_entry = ""
    /\ errorShown' = "Please select a folder first"
    /\ widgetCalls' = Touched("ui", {"status_label"})
    /\ UNCHANGED <<folder_entry, folder_path, scan_btn, progressShown, workers,
                   afterQueue, posted, self_duplicates, scans, progressSeen>>
    /\ UNCHANGED <<cancelRequested, chunkVars, rescanVars>>
    /\ UNCHANGED scanVars
    /\ UNCHANGED fsVars

\* lines 115-135: Scan clicked; the button reacts in state "normal" only.
\* The thread is started; its call of find_duplicates has not begun.
StartScan ==
    /\ scan_btn = "normal"
    /\ folder_entry # ""
    /\ scans < MaxScans
    /\ folder_path' = folder_entry
    /\ scan_btn' = Disabled(scan_btn)
    /\ progressShown' = TRUE
    /\ widgetCalls' = Touched("ui", {"scan_btn", "progress", "placeholder", "results_frame"})
    /\ workers' = workers + 1
    /\ scans' = scans + 1
    /\ posted' = "nothing"
    /\ progressSeen' = 0
    /\ pc' = "idle"
    /\ config' = NoConfig
    /\ walkDirs' = <<>>
    /\ walkRoot' = Root
    /\ walkFiles' = <<>>
    /\ all_files' = <<>>
    /\ potential_duplicates' = <<>>
    /\ hashTodo' = <<>>
    /\ hash_groups' = <<>>
    /\ total_to_check' = 0
    /\ checked' = 0
    /\ callbacks' = <<>>
    /\ hashCalls' = <<>>
    /\ hashFailed' = {}
    /\ duplicates' = <<>>
    /\ stats' = NoStats
    /\ UNCHANGED <<folder_entry, afterQueue, self_duplicates, errorShown>>
    /\ UNCHANGED <<cancelRequested, chunkVars, rescanVars>>
    /\ UNCHANGED fsVars

\* lines 146-150: the worker calls find_duplicates
WorkerCall ==
    /\ workers > 0
    /\ Start(ViewConfig)

\* a step of find_duplicates or get_duplicate_stats in the worker thread;
\* the call of `progress` made by the step before comes first
WorkerStep ==
    /\ workers > 0
    /\ folder_path = "folder"
    /\ progressSeen = Len(callbacks)
    /\ \/ WalkDir
       \/ WalkFile
       \/ Classify
       \/ HashFile
       \/ Return
       \/ Stats

\* lines 142-144: `progress`, called by find_duplicates (line 85) in the
\* thread that runs it
Progress ==
    /\ workers > 0
    /\ progressSeen < Len(callbacks)
    /\ progressSeen' = progressSeen + 1
    /\ widgetCalls' = Touched("worker", {"progress", "status_label"})
    /\ UNCHANGED <<folder_entry, folder_path, scan_btn, progressShown, workers,
                   afterQueue, posted, self_duplicates, errorShown, scans>>
    /\ UNCHANGED <<cancelRequested, chunkVars, rescanVars>>
    /\ UNCHANGED scanVars
    /\ UNCHANGED fsVars

\* lines 146-154: both calls returned; the result is stored and the display
\* handed to the UI thread
WorkerPost ==
    /\ workers > 0
    /\ pc = "stats"
    /\ progressSeen = Len(callbacks)
    /\ self_duplicates' = duplicates
    /\ afterQueue' = Append(afterQueue, [fn |-> "_display_results", e |-> Unbound])
    /\ posted' = "_display_results"
    /\ workers' = workers - 1
    /\ UNCHANGED <<folder_entry, folder_path, scan_btn, progressShown, widgetCalls,
                   errorShown, scans, progressSeen>>
    /\ UNCHANGED <<cancelRequested, chunkVars, rescanVars>>
    /\ UNCHANGED scanVars
    /\ UNCHANGED fsVars

\* line 43 and lines 156-157: os.walk raises ValueError on the invalid text,
\* which find_duplicates does not catch; the handler of _do_scan hands
\* `lambda: self._scan_error(str(e))` to the UI thread
WorkerRaises ==
    /\ workers > 0
    /\ folder_path = "invalid"
    /\ pc = "walking"
    /\ pc' = "failed"
    /\ afterQueue' = Append(afterQueue, [fn |-> "_scan_error", e |-> ExcText])
    /\ posted' = "_scan_error"
    /\ workers' = workers - 1
    /\ UNCHANGED <<folder_entry, folder_path, scan_btn, progressShown, widgetCalls,
                   self_duplicates, errorShown, scans, progressSeen>>
    /\ UNCHANGED <<config, walkDirs, walkRoot, walkFiles, all_files,
                   potential_duplicates, hashTodo, hash_groups, total_to_check,
                   checked, callbacks, hashCalls, hashFailed, duplicates, stats>>
    /\ UNCHANGED <<cancelRequested, chunkVars, rescanVars>>
    /\ UNCHANGED fsVars

\* line 157, end of `except Exception as e:`: Python unbinds `e`, the
\* variable the lambda refers to, when the clause ends
WorkerLeave ==
    /\ \E i \in 1..Len(afterQueue) :
          /\ afterQueue[i].fn = "_scan_error"
          /\ afterQueue[i].e # Unbound
          /\ afterQueue' = [afterQueue EXCEPT ![i].e = Unbound]
    /\ UNCHANGED <<folder_entry, folder_path, scan_btn, progressShown, workers, posted,
                   widgetCalls, self_duplicates, errorShown, scans, progressSeen>>
    /\ UNCHANGED <<cancelRequested, chunkVars, rescanVars>>
    /\ UNCHANGED scanVars
    /\ UNCHANGED fsVars

\* lines 159-218, run by the UI thread
DisplayResults ==
    /\ afterQueue # <<>>
    /\ Head(afterQueue).fn = "_display_results"
    /\ afterQueue' = Tail(afterQueue)
    /\ progressShown' = FALSE
    /\ scan_btn' = "normal"
    /\ widgetCalls' =
          Touched("ui", {"progress", "scan_btn", "placeholder", "stats_label"}
                        \cup IF self_duplicates # <<>>
                             THEN {"results_frame", "status_label"} ELSE {})
    /\ UNCHANGED <<folder_entry, folder_path, workers, posted, self_duplicates,
                   errorShown, scans, progressSeen>>
    /\ UNCHANGED <<cancelRequested, chunkVars, rescanVars>>
    /\ UNCHANGED scanVars
    /\ UNCHANGED fsVars

\* lines 220-224, run by the UI thread while `e` is still bound
ScanError ==
    /\ afterQueue # <<>>
    /\ Head(afterQueue).fn = "_scan_error"
    /\ Head(afterQueue).e # Unbound
    /\ afterQueue' = Tail(afterQueue)
    /\ progressShown' = FALSE
    /\ scan_btn' = "normal"
    /\ errorShown' = Head(afterQueue).e
    /\ widgetCalls' = Touched("ui", {"progress", "scan_btn", "status_label"})
    /\ UNCHANGED <<folder_entry, folder_path, workers, posted, self_duplicates,
                   scans, progressSeen>>
    /\ UNCHANGED <<cancelRequested, chunkVars, rescanVars>>
    /\ UNCHANGED scanVars
    /\ UNCHANGED fsVars

\* line 157: the UI thread runs the lambda after `e` was unbound; str(e)
\* raises NameError, _scan_error is not called, Tk reports the exception of
\* the callback on stderr
ScanErrorLost ==
    /\ afterQueue # <<>>
    /\ Head(afterQueue).fn = "_scan_error"
    /\ Head(afterQueue).e = Unbound
    /\ afterQueue' = Tail(afterQueue)
    /\ UNCHANGED <<folder_entry, folder_path, scan_btn, progressShown, workers, posted,
                   widgetCalls, self_duplicates, errorShown, scans, progressSeen>>
    /\ UNCHANGED <<cancelRequested, chunkVars, rescanVars>>
    /\ UNCHANGED scanVars
    /\ UNCHANGED fsVars

NextView ==
    \/ \E text \in EntryTexts : Browse(text)
    \/ StartScanEmpty
    \/ StartScan
    \/ WorkerCall
    \/ WorkerStep
    \/ Progress
    \/ WorkerPost
    \/ WorkerRaises
    \/ WorkerLeave
    \/ DisplayResults
    \/ ScanError
    \/ ScanErrorLost

SpecView == Init /\ [][NextView]_vars

----------------------------------------------------------------------------
(* Vocabulary of the properties *)

Finished == pc \in {"done", "stats"}

Range(q) == {q[i] : i \in 1..Len(q)}

\* the groups of a result, each as the set of its members
GroupSets(d) == {Range(d[i].files) : i \in 1..Len(d)}

\* a dictionary as the set of its items
Items(d) == {<<d[i].key, d[i].files>> : i \in 1..Len(d)}

SameGroup(A, B) == \E g \in GroupSets(duplicates) : A \in g /\ B \in g

\* the paths the walker recorded
Enumerated == {all_files[i].path : i \in 1..Len(all_files)}

\* the size the walker recorded for an enumerated path
RecordedSize(p) == (CHOOSE r \in Range(all_files) : r.path = p).size

\* the non-empty prefixes of a path
Prefixes(p) == {SubSeq(p, 1, k) : k \in 1..Len(p)}

\* the path and everything it depends on is present, readable and was left
\* alone by the external writer since the scan started
Untouched(p) ==
    /\ rootKind = "dir"
    /\ \A q \in Prefixes(p) \cup Prefixes(Resolve(p)) :
          q \in exists /\ q \notin unreadable /\ q \notin changed

\* a regular file the configuration of the scan covers
PassesFilters(f) ==
    /\ f \in FileNodes
    /\ config.recursive \/ Len(f) = 1
    /\ PassesExtension(Last(f), config.extensions)
    /\ Len(data[f]) >= config.min_size

RECURSIVE SumOver(_, _)
SumOver(S, term) ==
    IF S = {} THEN 0
    ELSE LET x == CHOOSE y \in S : TRUE
         IN  term[x] + SumOver(S \ {x}, term)

----------------------------------------------------------------------------
(* C1: two regular files with byte-identical content that pass the filters *)
(* of the scan and stay present, readable and unchanged while it runs are  *)
(* members of one group of the result.                                     *)
C1_IdenticalFilesGrouped ==
    Finished =>
        \A A, B \in FileNodes :
            ( /\ A # B
              /\ PassesFilters(A) /\ PassesFilters(B)
              /\ Untouched(A) /\ Untouched(B)
              /\ data[A] = data[B] )
            => SameGroup(A, B)

C1_Witness ==
    /\ Finished
    /\ \E A, B \in FileNodes :
          /\ A # B
          /\ PassesFilters(A) /\ PassesFilters(B)
          /\ Untouched(A) /\ Untouched(B)
          /\ data[A] = data[B]
          /\ data[A] # <<>>
          /\ SameGroup(A, B)

(* C2: two members of one group of the result, both left alone by the      *)
(* external writer during the scan, never differ in content, also when     *)
(* they have the same size.                                                *)
C2_DifferentFilesApart ==
    Finished =>
        \A g \in GroupSets(duplicates) : \A A, B \in g :
            (Untouched(A) /\ Untouched(B) /\ IsFile(A) /\ IsFile(B))
            => data[Resolve(A)] = data[Resolve(B)]

\* two files of one size and of different content were hashed, and a group exists
C2_Witness ==
    /\ Finished
    /\ duplicates # <<>>
    /\ \E A, B \in Range(hashCalls) :
          /\ Untouched(A) /\ Untouched(B) /\ IsFile(A) /\ IsFile(B)
          /\ Len(data[Resolve(A)]) = Len(data[Resolve(B)])
          /\ data[Resolve(A)] # data[Resolve(B)]
          /\ ~SameGroup(A, B)

(* C3: when the scan root is missing or is not a directory, the call does  *)
(* not return a result: it fails, with recursive true and false alike.     *)
C3_RootErrorExplicit == (rootKind # "dir") => ~Finished

----------------------------------------------------------------------------
(* The scan as it would be had the files whose hashing failed not been     *)
(* enumerated: the same walk without them, classified, hashed to the       *)
(* digests this scan computed, and filtered.                               *)

Survivors == SelectSeq(all_files, LAMBDA r : r.path \notin hashFailed)

\* the digest this scan computed for a file it hashed
DigestOf(p) == (CHOOSE g \in Range(hash_groups) : p \in Range(g.files)).key

RECURSIVE GroupByDigest(_, _)
GroupByDigest(paths, acc) ==
    IF paths = <<>> THEN acc
    ELSE GroupByDigest(Tail(paths), DictAppend(acc, DigestOf(Head(paths)), Head(paths)))

ResultWithoutFailed ==
    ActualDuplicates(
        GroupByDigest(Flatten(PotentialDuplicates(GroupBySize(Survivors, <<>>))), <<>>))

\* no enumerated file other than the failed ones was changed during the scan
OthersUntouched == \A p \in Enumerated \ hashFailed : Untouched(p)

\* an enumerated path that can no longer be opened as a file: it was deleted
\* or made unreadable after the walker recorded it
LostAfterWalk(p) ==
    /\ p \in Enumerated
    /\ Resolve(p) \in FileNodes \cap changed
    /\ ~CanOpen(p)

(* C4: a file that is deleted or becomes unreadable between the walk and   *)
(* its hashing does not stop the scan: the call returns, the file is in no *)
(* group, every other file of a size group is still hashed, and the result *)
(* is the one of a scan that never enumerated the failed file (the other   *)
(* files being left alone).                                                *)
C4_FailedFileAbsent ==
    /\ pc = "failed" => hashCalls = <<>>
    /\ Finished =>
          /\ \A p \in hashFailed : \A g \in GroupSets(duplicates) : p \notin g
          /\ \A p \in Range(Flatten(potential_duplicates)) : p \in Range(hashCalls)
          /\ OthersUntouched => Items(duplicates) = Items(ResultWithoutFailed)

\* a file was lost after the walk, its hashing failed, files after it were
\* hashed and a group was returned
C4_Witness ==
    /\ Finished
    /\ \E p \in hashFailed :
          /\ LostAfterWalk(p)
          /\ OthersUntouched
          /\ \E i, j \in 1..Len(hashCalls) :
                i < j /\ hashCalls[i] = p /\ SameGroup(hashCalls[j], hashCalls[j])

(* C5: the progress callback is invoked once per candidate file, hashed or *)
(* failed, so that it is invoked total_to_check times and its last call    *)
(* reports checked = total.                                                *)
C5_CallbackPerCandidate ==
    Finished =>
        /\ Len(callbacks) = total_to_check
        /\ callbacks # <<>> => callbacks[Len(callbacks)] = <<total_to_check, total_to_check>>

(* C6: a file whose recorded size no other enumerated entry shares is      *)
(* never passed to compute_hash.                                           *)
C6_SingletonNeverHashed ==
    \A p \in Range(hashCalls) :
        /\ p \in Enumerated
        /\ \E q \in Enumerated : q # p /\ RecordedSize(q) = RecordedSize(p)

\* some enumerated file is alone with its size while others were hashed
C6_Witness ==
    /\ Finished
    /\ hashCalls # <<>>
    /\ \E p \in Enumerated :
          /\ \A q \in Enumerated \ {p} : RecordedSize(q) # RecordedSize(p)
          /\ p \notin Range(hashCalls)

----------------------------------------------------------------------------
(* Statistics *)

Groups == 1..Len(duplicates)

\* s x (n - 1) for every group, s the size the walker recorded for its files
RecordedTerm ==
    [i \in Groups |->
        RecordedSize(duplicates[i].files[1]) * (Len(duplicates[i].files) - 1)]

\* the same with s read from the first member when the statistics are
\* computed, and nothing for a group whose first member cannot be stat'ed
CurrentTerm ==
    [i \in Groups |->
        IF StatOK(duplicates[i].files[1])
        THEN GetSize(duplicates[i].files[1]) * (Len(duplicates[i].files) - 1)
        ELSE 0]

ExtraMembers == [i \in Groups |-> Len(duplicates[i].files) - 1]

C8_StatsCounts ==
    pc = "stats" =>
        /\ stats.groups = Len(duplicates)
        /\ stats.duplicate_files = SumOver(Groups, ExtraMembers)
        /\ stats.total_files = stats.groups + stats.duplicate_files
        /\ stats.duplicate_files >= stats.groups

C8_Witness ==
    /\ pc = "stats"
    /\ stats.groups >= 1
    /\ stats.duplicate_files > stats.groups

(* C9: every group of the returned mapping has at least 2 members; a       *)
(* digest only one hashed file has is no key of the result.                *)
C9_GroupsAtLeastTwo ==
    /\ \A i \in Groups : Len(duplicates[i].files) >= 2
    /\ Finished =>
          \A g \in Range(hash_groups) :
              Len(g.files) = 1 => \A i \in Groups : duplicates[i].key # g.key

\* a hashing failure left a file alone with its digest, next to a returned group
C9_Witness ==
    /\ Finished
    /\ hashFailed # {}
    /\ duplicates # <<>>
    /\ \E g \in Range(hash_groups) : Len(g.files) = 1

(* C10: the walker follows no symbolic link: nothing below a linked        *)
(* directory is enumerated, no link to a file is enumerated, and no group  *)
(* holds a file together with a link to it.                                *)
C10_NoSymlinkFollowed ==
    /\ \A p \in Enumerated :
          /\ \A q \in Prefixes(p) \ {p} : q \notin LinkNodes
          /\ p \in LinkNodes => Target[p] \notin FileNodes
    /\ \A g \in GroupSets(duplicates) : \A A, B \in g :
          (A # B /\ A \in LinkNodes) => Target[A] # B

----------------------------------------------------------------------------
(* Enumeration *)

Started == pc # "idle"

\* every path the scan recorded, hashed or reported
Handled ==
    Enumerated \cup Range(hashCalls) \cup UNION GroupSets(duplicates)

\* the names whose final extension is ".txt" in some mix of cases
TxtNames == {"a.txt", "b.TXT", "d.txt"}

\* a regular file within the reach of the scan and not below min_size, left
\* alone by the external writer
InScope(f) ==
    /\ Untouched(f)
    /\ config.recursive \/ Len(f) = 1
    /\ Len(data[f]) >= config.min_size

\* the extension filter, if one is active, names the extension of the file
Wanted(f) == config.extensions.items = {DotTxt} => Last(f) \in TxtNames

(* C11: with recursive = false nothing inside a subdirectory of the root   *)
(* is enumerated, hashed or reported, so identical files that meet only    *)
(* through a subdirectory form no group.                                   *)
C11_NonRecursiveStaysAtTop ==
    (Started /\ ~config.recursive) => \A p \in Handled : Len(p) = 1

\* a file of the subdirectory has the content of a file of the root, and the
\* non-recursive scan that ended reports neither
C11_Witness ==
    /\ Finished
    /\ ~config.recursive
    /\ config.extensions.none /\ config.min_size = 0
    /\ Untouched(<<"sub", "d.txt">>) /\ Untouched(<<"b.TXT">>)
    /\ data[<<"sub", "d.txt">>] = data[<<"b.TXT">>]
    /\ data[<<"b.TXT">>] # data[<<"a.txt">>]
    /\ duplicates = <<>>
    /\ <<"b.TXT">> \in Enumerated

(* C12: with a non-empty extension filter a path is enumerated, hashed or  *)
(* reported only if its final extension, dot included and case ignored, is *)
(* in the filter (a name without extension never is); with extensions     *)
(* None or empty every file is accepted.                                   *)
C12_ExtensionFilter ==
    /\ (Started /\ config.extensions.items = {DotTxt}) =>
          \A p \in Handled : Last(p) \in TxtNames
    /\ Finished => \A f \in FileNodes : (InScope(f) /\ Wanted(f)) => f \in Enumerated

\* under the filter ['.txt'] the file b.TXT was enumerated and the link lnk,
\* a name without extension that is present, was not
C12_Witness ==
    /\ Finished
    /\ config.extensions.items = {DotTxt}
    /\ <<"b.TXT">> \in Enumerated
    /\ StatOK(<<"lnk">>)
    /\ <<"lnk">> \notin Handled

(* C13: a file smaller than min_size is never enumerated, hashed or        *)
(* reported; a file of size >= min_size is not excluded by the size        *)
(* filter; with min_size = 0 no file, a 0-byte file included, is excluded. *)
C13_MinSizeFilter ==
    /\ \A r \in Range(all_files) : r.size >= config.min_size
    /\ Started =>
          \A p \in Handled :
              (Untouched(p) /\ IsFile(p)) => Len(data[Resolve(p)]) >= config.min_size
    /\ Finished =>
          \A f \in FileNodes :
              (InScope(f) /\ PassesExtension(Last(f), config.extensions))
              => f \in Enumerated

\* min_size = 1 kept an empty file out and let a larger one in
C13_Witness ==
    /\ Finished
    /\ config.min_size > 0
    /\ \E f, g \in FileNodes :
          /\ Untouched(f) /\ Untouched(g)
          /\ Len(f) = 1 /\ Len(g) = 1
          /\ data[f] = <<>> /\ f \notin Handled
          /\ Len(data[g]) >= config.min_size /\ g \in Enumerated

Position(n) == CHOOSE i \in 1..Len(NameOrder) : NameOrder[i] = n

\* the size lookup of the entry of the root named n raised during the walk
StatRaised(n) ==
    /\ <<n>> \in exists
    /\ PassesExtension(n, config.extensions)
    /\ ~StatOK(<<n>>)
    /\ changed = {}

(* C14: an error on one entry during enumeration (a directory that cannot  *)
(* be listed, a file whose size lookup fails) is absorbed: the call does   *)
(* not fail on it, and the entries after it are still enumerated.          *)
C14_EntryErrorAbsorbed ==
    /\ pc = "failed" => (rootKind # "dir" /\ ~config.recursive /\ all_files = <<>>)
    /\ Finished =>
          \A f \in FileNodes :
              (InScope(f) /\ PassesExtension(Last(f), config.extensions))
              => f \in Enumerated

\* a size lookup raised, the scan went on, recorded an entry listed after the
\* failing one and returned
C14_Witness ==
    /\ Finished
    /\ \E n \in Range(NameOrder) :
          /\ StatRaised(n)
          /\ \E p \in Enumerated : Len(p) > 1 \/ Position(p[1]) > Position(n)

----------------------------------------------------------------------------
(* The call as a whole *)

(* C15: once cancellation is signalled the scan stops between files: no    *)
(* further file is enumerated or hashed, and the call returns early with   *)
(* a result tagged as cancelled.                                           *)
C15_CancellationHonoured ==
    [][cancelRequested => (all_files' = all_files /\ hashCalls' = hashCalls)]_vars

(* C16: a configuration error (a negative min_size) is rejected before any *)
(* file system operation: the call fails and nothing is listed or          *)
(* enumerated.                                                             *)
C16_ConfigRejected ==
    (Started /\ config.min_size < 0) =>
        /\ pc = "failed"
        /\ walkFiles = <<>> /\ walkDirs = <<>> /\ all_files = <<>>

\* the steps an invocation may take from one phase to the next: Classify is
\* the size filtering that leads from walking to hashing, Return the
\* aggregation that leads from hashing to done
PhaseSteps ==
    { <<"idle", "walking">>, <<"idle", "failed">>, <<"walking", "hashing">>,
      <<"hashing", "done">>, <<"done", "stats">> }

(* C17: an invocation goes Idle, Walking, SizeFiltering, Hashing,          *)
(* Aggregating, Done in that order and enters no phase twice; no file is   *)
(* hashed before enumeration and size classification are over, and no      *)
(* result exists before Done.                                              *)
C17_PhasesInOrder ==
    [][ /\ pc' # pc => <<pc, pc'>> \in PhaseSteps
        /\ hashCalls' # hashCalls =>
              /\ pc = "hashing"
              /\ walkFiles = <<>> /\ walkDirs = <<>>
              /\ all_files' = all_files
              /\ potential_duplicates = PotentialDuplicates(GroupBySize(all_files, <<>>))
        /\ all_files' # all_files => (pc = "walking" /\ hashCalls = <<>>)
        /\ pc' \notin {"done", "stats"} => duplicates' = <<>>
        /\ pc \in {"done", "stats"} => duplicates' = duplicates ]_vars

\* a recursive scan over two directories hashed files and returned a group
C17_Witness ==
    /\ pc = "stats"
    /\ config.recursive
    /\ \E p \in Enumerated : Len(p) > 1
    /\ hashCalls # <<>>
    /\ duplicates # <<>>

(* C18: in every progress callback the total is the number of files in     *)
(* size groups of 2 and more, fixed before the first file is hashed; the   *)
(* processed count starts at 1, grows by 1 from one callback to the next   *)
(* and never exceeds the total.                                            *)
C18_ProgressCounters ==
    \A i \in 1..Len(callbacks) :
        /\ callbacks[i][1] = i
        /\ callbacks[i][2] = Len(Flatten(potential_duplicates))
        /\ callbacks[i][1] <= callbacks[i][2]

\* three callbacks were made over two size groups, one file having failed
C18_Witness ==
    /\ Finished
    /\ Len(callbacks) >= 3
    /\ Len(potential_duplicates) >= 2
    /\ hashFailed # {}

(* C19: during the walk the progress callback is invoked with the count of *)
(* entries discovered so far, so the caller is notified before hashing     *)
(* starts.                                                                 *)
C19_WalkingProgress ==
    pc = "walking" => Len(callbacks) >= Len(all_files)

(* C20: compute_hash is invoked at most once for each file path.           *)
C20_HashedAtMostOnce ==
    \A i, j \in 1..Len(hashCalls) : hashCalls[i] = hashCalls[j] => i = j

\* several files of two size groups were hashed, one of them failing
C20_Witness ==
    /\ Finished
    /\ Len(hashCalls) >= 4
    /\ Len(potential_duplicates) >= 2
    /\ hashFailed # {}

----------------------------------------------------------------------------
(* C23: only regular files become candidates; a directory entry is never   *)
(* recorded by the walker, never placed in a size group, never counted in  *)
(* the total and never passed to compute_hash, whatever `recursive` is.    *)
C23_OnlyRegularFiles ==
    \A p \in Enumerated \cup Range(Flatten(potential_duplicates)) \cup Range(hashCalls) :
        p \notin DirNodes

(* C24: all members of one returned group were recorded by the walker      *)
(* with the same size, whatever the external writer did between the size   *)
(* pass and the hashing pass.  Stated for the scans in which the walker    *)
(* saw every file in one state only.                                       *)
C24_GroupFromOneBucket ==
    (\A p, q \in Enumerated : Resolve(p) = Resolve(q) => RecordedSize(p) = RecordedSize(q))
    => \A i \in Groups :
          \A p, q \in Range(duplicates[i].files) : RecordedSize(p) = RecordedSize(q)

(* C25: the returned groups are pairwise disjoint and free of repetition   *)
(* (a path occurs in at most one group, at most once), and every path of   *)
(* the result was enumerated by the walker of this scan.                   *)
C25_GroupsDisjoint ==
    /\ \A i, j \in Groups :
          \A k \in 1..Len(duplicates[i].files), l \in 1..Len(duplicates[j].files) :
              duplicates[i].files[k] = duplicates[j].files[l] => (i = j /\ k = l)
    /\ \A i \in Groups : Range(duplicates[i].files) \subseteq Enumerated

\* two groups are returned, from files of the root and of a subdirectory
C25_Witness ==
    /\ Finished
    /\ Len(duplicates) >= 2
    /\ \E i \in Groups : \E p \in Range(duplicates[i].files) : Len(p) > 1

----------------------------------------------------------------------------
\* the groups whose first member can be stat'ed
Readable == {i \in Groups : StatOK(duplicates[i].files[1])}

MemberCount == [i \in Groups |-> Len(duplicates[i].files)]

SizeTerm ==
    [i \in Groups |-> GetSize(duplicates[i].files[1]) * (Len(duplicates[i].files) - 1)]

(* C28: get_duplicate_stats does not fail when the first member of a group *)
(* vanished after the scan: the statistics are returned, groups,           *)
(* total_files and duplicate_files are what they are without the failure,  *)
(* and wasted_space only lacks the term of the groups that failed.         *)
C28_StatsSurviveFailure ==
    /\ pc = "failed" => duplicates = <<>>
    /\ pc = "stats" =>
          /\ stats.groups = Len(duplicates)
          /\ stats.total_files = SumOver(Groups, MemberCount)
          /\ stats.duplicate_files = stats.total_files - stats.groups
          /\ stats.wasted_space = SumOver(Readable, SizeTerm)

\* the statistics were computed although the first member of a group was gone
C28_Witness ==
    /\ pc = "stats"
    /\ Readable # Groups
    /\ stats.duplicate_files >= 1

(* C29: a scan is read-only: no step of find_duplicates, compute_hash or   *)
(* get_duplicate_stats creates, changes or removes a file or a directory.  *)
C29_ScanReadOnly ==
    [][scanVars' # scanVars => UNCHANGED <<rootKind, exists, unreadable, data>>]_vars

\* a scan without external changes ran to its statistics and hashed a
\* file that is not empty
C29_Witness ==
    /\ pc = "stats"
    /\ envSteps = 0
    /\ exists = Nodes
    /\ \E p \in Range(hashCalls) : CanOpen(p) /\ data[Resolve(p)] # <<>>

----------------------------------------------------------------------------
(* C30: compute_hash reads the file in chunks of at most chunk_size bytes, *)
(* stops at the end of the file, and for every chunk_size >= 1 returns the *)
(* digest of the complete content: the result is the same for every       *)
(* chunk_size, and no read returns more than chunk_size bytes.             *)
C30_ChunkedDigest ==
    /\ \A i \in 1..Len(reads) : reads[i] <= chunk_size
    /\ Len(reads) <= Len(hashInput) + 1
    /\ hasher = SubSeq(hashInput, 1, filePos)
    /\ hashState = "returned" =>
          /\ filePos = Len(hashInput)
          /\ digest = HexDigest(hashInput)
          /\ \A size \in 1..MaxChunk : ComputeHash(hashInput, size) = digest
          /\ ComputeHash(hashInput, DefaultChunkSize) = digest

\* a file that is no multiple of the chunk size was read in several chunks
C30_Witness ==
    /\ hashState = "returned"
    /\ chunk_size > 1
    /\ Len(hashInput) > chunk_size
    /\ Len(hashInput) % chunk_size # 0
    /\ Len(reads) >= 3

----------------------------------------------------------------------------
(* C21: two scans with the same configuration over an unchanged file       *)
(* system return the same set of groups, each group taken as a set of      *)
(* paths (and fail alike); nothing the first call left behind changes the  *)
(* result of the second.                                                   *)
C21_SameResultTwice ==
    (previous.made /\ pc \in {"done", "failed"}) =>
        /\ pc = previous.pc
        /\ GroupSets(duplicates) = GroupSets(previous.duplicates)

\* both calls returned two groups, the second after listings in the other order
C21_Witness ==
    /\ previous.made
    /\ listingReversed
    /\ pc = "done"
    /\ Len(duplicates) >= 2
    /\ duplicates # previous.duplicates

----------------------------------------------------------------------------
(* C22: when the scan of the view ends with a fatal error, the user is     *)
(* shown the error: once the UI thread has run what the worker handed      *)
(* over for the error, the text of the exception is displayed, the         *)
(* progress bar is hidden and the Scan button is enabled again.            *)
C22_ErrorShown ==
    (posted = "_scan_error" /\ afterQueue = <<>>) =>
        /\ errorShown = ExcText
        /\ ~progressShown
        /\ scan_btn = "normal"

(* C26: at most one scan worker is at work at any time: from the start of  *)
(* a worker until _display_results or _scan_error has run the Scan button  *)
(* is disabled and no second worker is started.                            *)
C26_OneWorker ==
    /\ workers <= 1
    /\ Len(afterQueue) <= 1
    /\ (workers > 0 \/ afterQueue # <<>>) => scan_btn = "disabled"

\* a second scan is hashing after the first one was displayed
C26_Witness ==
    /\ scans = 2
    /\ workers = 1
    /\ pc = "hashing"
    /\ self_duplicates # <<>>

(* C27: every modification of a widget of the view is made by the UI       *)
(* thread; the worker thread touches no widget, its progress callback      *)
(* included.                                                               *)
C27_WidgetsOnUIThread == \A c \in widgetCalls : c[2] = "ui"
====
